---- MODULE Spec2Model ----
(***************************************************************************)
(* Model of the object store, of the tree commands and of the smart-HTTP   *)
(* clone client of codecrafters-git-rust.  Three specifications share the  *)
(* variables: StoreSpec (object reads and writes), TreeSpec (write-tree,   *)
(* ls-tree, checkout of a tree) and Spec (clone).                          *)
(* Bytes are the integers 0..255, byte strings are                         *)
(* sequences of bytes.  The two external libraries the program leans on    *)
(* are modelled by stand-ins that keep the one property the program uses:  *)
(*   - SHA-1 (crate sha1) is a collision-free map to 20 bytes;             *)
(*   - zlib (crate flate2) is a self-delimiting stream codec: inflating    *)
(*     reports the bytes produced and the count of input bytes consumed.   *)
(***************************************************************************)
EXTENDS Integers, Sequences, FiniteSets, TLC

VARIABLES
    objDirs,        \* prefix directories that exist under .git/objects
    objFiles,       \* object files: <<prefix, filename>> -> file content
    written,        \* history: the (kind, data) pairs Object::write has stored
    lastRead,       \* result of the latest Object::read of a command
    lastWrite,      \* the Object::write of the latest command: hash, did the file exist
    pc,             \* where the clone command stands
    caller,         \* the function parse_pkt_lines returns to
    lines,          \* parse_pkt_lines: the bytes not yet consumed
    pkt_lines,      \* parse_pkt_lines: the frames found so far
    rest,           \* parse_pkt_lines: the cursor inside the pack
    packets_left,   \* parse_pkt_lines: pack entries still to decode
    entry,          \* the header of the pack entry being decoded
    refs,           \* ref_info: the refs advertised
    posted,         \* fetch_refs: the request body sent
    outcome,        \* "running", or how the command ended: "ok", "err", "panic"
    error,          \* the message of the error the command ended with
    checkedOut,     \* the digest checkout was invoked on, <<>> before
    discovered,     \* history: ref_info has returned the ref list
    headersParsed,  \* history: pack entry headers parsed
    persisted,      \* history: pack entries whose object was written
    lastEntry,      \* history: sizes of the latest pack entry handled
    deltaOps,       \* history: delta instructions of the latest ref-delta
    response,       \* history: the body of the latest response received
    workdir,        \* the working directory: path -> file, symlink or directory
    lastTree,       \* the latest write-tree: digest, entries, directory it read
    parsed,         \* the latest ls-tree: the tree Tree::try_from returned
    outdir,         \* the directory the latest checkout wrote into
    lastCheckout    \* the latest checkout: tree digest, result, what it created

storeVars == <<objDirs, objFiles, written, lastRead, lastWrite>>

parseVars == <<lines, pkt_lines, rest, packets_left, entry>>

historyVars == <<discovered, headersParsed, persisted, lastEntry, deltaOps, response>>

cloneVars == <<pc, caller, parseVars, refs, posted, outcome, error, checkedOut, historyVars>>

treeVars == <<workdir, lastTree, parsed, outdir, lastCheckout>>

vars == <<storeVars, cloneVars, treeVars>>

(***************************************************************************)
(* Bounds of the model.                                                    *)
(***************************************************************************)
MaxPayloadLen == 2
MaxObjects == 2

(***************************************************************************)
(* Byte-string helpers.                                                    *)
(***************************************************************************)
DropFirst(s, n) == SubSeq(s, n + 1, Len(s))

TakeFirst(s, n) == SubSeq(s, 1, n)

RECURSIVE Concat(_)
Concat(ss) == IF ss = <<>> THEN <<>> ELSE Head(ss) \o Concat(Tail(ss))

\* Index of the first / last occurrence of byte b in s, 0 when absent.
FirstIndexOf(s, b) ==
    IF \E i \in 1..Len(s) : s[i] = b
    THEN CHOOSE i \in 1..Len(s) : s[i] = b /\ \A j \in 1..(i - 1) : s[j] # b
    ELSE 0

LastIndexOf(s, b) ==
    IF \E i \in 1..Len(s) : s[i] = b
    THEN CHOOSE i \in 1..Len(s) : s[i] = b /\ \A j \in (i + 1)..Len(s) : s[j] # b
    ELSE 0

\* Byte strings over alphabet A of length at most n.
RECURSIVE SeqsUpTo(_, _)
SeqsUpTo(A, n) ==
    IF n = 0 THEN {<<>>}
    ELSE LET shorter == SeqsUpTo(A, n - 1)
         IN  shorter \cup {Append(s, a) : s \in shorter, a \in A}

\* hex::encode: two lowercase hex digits per byte.
HexDigit(n) == IF n < 10 THEN 48 + n ELSE 87 + n

HexEncode(bytes) ==
    [i \in 1..(2 * Len(bytes)) |->
        IF i % 2 = 1 THEN HexDigit(bytes[(i + 1) \div 2] \div 16)
                     ELSE HexDigit(bytes[i \div 2] % 16)]

\* usize Display: decimal digits without sign or padding.
RECURSIVE ToDecimal(_)
ToDecimal(n) ==
    IF n < 10 THEN <<48 + n>> ELSE Append(ToDecimal(n \div 10), 48 + (n % 10))

\* usize::from_str: an optional '+' and at least one decimal digit.
IsDigit(b) == b >= 48 /\ b <= 57

RECURSIVE DigitsValue(_)
DigitsValue(s) ==
    IF s = <<>> THEN 0
    ELSE 10 * DigitsValue(TakeFirst(s, Len(s) - 1)) + (s[Len(s)] - 48)

ParseUsize(s) ==
    LET digits == IF s # <<>> /\ s[1] = 43 THEN Tail(s) ELSE s
    IN  IF digits # <<>> /\ \A i \in 1..Len(digits) : IsDigit(digits[i])
        THEN [ok |-> TRUE, val |-> DigitsValue(digits)]
        ELSE [ok |-> FALSE, val |-> 0]

(***************************************************************************)
(* External libraries.                                                     *)
(***************************************************************************)
DigestLen == 20

\* Position i of a digest: the bytes at i, i + 19, i + 38, ... of the input,
\* each weighted by an odd number that tells its block.
RECURSIVE Sha1Lane(_, _, _)
Sha1Lane(bytes, i, block) ==
    IF 19 * block + i > Len(bytes) THEN 0
    ELSE bytes[19 * block + i] * (2 * block + 1) + Sha1Lane(bytes, i, block + 1)

\* Sha1: the first 19 positions fold the input, the last one is its length;
\* distinct inputs of at most 19 bytes have distinct digests, and so have
\* inputs of one length that differ in one byte.
Sha1(bytes) ==
    IF Len(bytes) < DigestLen
    THEN [i \in 1..DigestLen |->
             IF i = DigestLen THEN Len(bytes)
             ELSE IF i <= Len(bytes) THEN bytes[i]
             ELSE 0]
    ELSE [i \in 1..DigestLen |->
             IF i = DigestLen THEN Len(bytes) % 256
             ELSE Sha1Lane(bytes, i, 0) % 256]

\* ZlibEncoder: stream magic, length of the stored block, the block.
ZlibMagic == 120

ZlibCompress(data) == <<ZlibMagic, Len(data)>> \o data

\* ZlibDecoder::read_to_end + total_in: the inflated bytes and the number of
\* input bytes the stream occupied; input after the stream is left alone.
ZlibInflate(input) ==
    IF Len(input) >= 2 /\ input[1] = ZlibMagic /\ Len(input) >= 2 + input[2]
    THEN [ok |-> TRUE, data |-> SubSeq(input, 3, 2 + input[2]), total_in |-> 2 + input[2]]
    ELSE [ok |-> FALSE, data |-> <<>>, total_in |-> 0]

(***************************************************************************)
(* object.rs                                                               *)
(***************************************************************************)
ObjectKinds == {"Blob", "Commit", "Tree"}

\* ObjectKind::as_str
KindAsStr(kind) ==
    CASE kind = "Blob" -> <<98, 108, 111, 98>>
      [] kind = "Commit" -> <<99, 111, 109, 109, 105, 116>>
      [] kind = "Tree" -> <<116, 114, 101, 101>>

\* ObjectKind::from_str
KindFromStr(value) ==
    IF \E k \in ObjectKinds : KindAsStr(k) = value
    THEN [ok |-> TRUE, kind |-> CHOOSE k \in ObjectKinds : KindAsStr(k) = value]
    ELSE [ok |-> FALSE, kind |-> "Blob"]

\* as_str without the terminating NUL.
HeaderAsStrNoNul(header) ==
    KindAsStr(header.kind) \o <<32>> \o ToDecimal(header.data_length)

\* ObjectHeader::as_str: "<kind> <data_length>\0"
HeaderAsStr(header) ==
    KindAsStr(header.kind) \o <<32>> \o ToDecimal(header.data_length) \o <<0>>

NoHeader == [kind |-> "Blob", data_length |-> 0]

\* ObjectHeader::try_from(Vec<u8>): the bytes before the NUL, split at the
\* last space into kind text and decimal length.
HeaderTryFrom(value) ==
    LET sp == LastIndexOf(value, 32)
        kind == KindFromStr(TakeFirst(value, sp - 1))
        len == ParseUsize(DropFirst(value, sp))
    IN  IF \E i \in 1..Len(value) : value[i] >= 128
        THEN [ok |-> FALSE, err |-> "Parsing header bytes", header |-> NoHeader]
        ELSE IF sp = 0
        THEN [ok |-> FALSE, err |-> "Invalid header format", header |-> NoHeader]
        ELSE IF ~kind.ok
        THEN [ok |-> FALSE, err |-> "Unrecognized object kind", header |-> NoHeader]
        ELSE IF ~len.ok
        THEN [ok |-> FALSE, err |-> "ParseIntError", header |-> NoHeader]
        ELSE [ok |-> TRUE, err |-> "",
              header |-> [kind |-> kind.kind, data_length |-> len.val]]

\* Object::new
ObjectNew(kind, data) ==
    LET header == [kind |-> kind, data_length |-> Len(data)]
    IN  [hash |-> HexEncode(Sha1(HeaderAsStr(header) \o data)),
         header |-> header,
         data |-> data]

NoObject == [hash |-> <<>>, header |-> NoHeader, data |-> <<>>]

\* Object::path: (objects_dir/prefix, objects_dir/prefix/filename)
ObjectPath(hash) ==
    [dir |-> TakeFirst(hash, 2), file |-> <<TakeFirst(hash, 2), DropFirst(hash, 2)>>]

\* Object::read
ObjectRead(files, hash) ==
    LET path == ObjectPath(hash).file
        inflated == ZlibInflate(files[path])
        buf == inflated.data
        nul == FirstIndexOf(buf, 0)
        headerBytes == IF nul = 0 THEN buf ELSE TakeFirst(buf, nul - 1)
        header == HeaderTryFrom(headerBytes)
        data == IF nul = 0 THEN <<>> ELSE DropFirst(buf, nul)
    IN  IF path \notin DOMAIN files
        THEN [ok |-> FALSE, err |-> "Opening object file", obj |-> NoObject]
        ELSE IF ~inflated.ok
        THEN [ok |-> FALSE, err |-> "Reading object file", obj |-> NoObject]
        ELSE IF ~header.ok
        THEN [ok |-> FALSE, err |-> header.err, obj |-> NoObject]
        ELSE [ok |-> TRUE, err |-> "",
              obj |-> [hash |-> hash, header |-> header.header, data |-> data]]

\* The file opened for append instead of truncated.
WrittenFileAppend(old, obj) == old \o ZlibCompress(HeaderAsStr(obj.header) \o obj.data)

\* File::create + ZlibEncoder::write_all x2: the file is truncated and then
\* holds the compressed header and data.
WrittenFile(old, obj) == ZlibCompress(HeaderAsStr(obj.header) \o obj.data)

\* Object::write: the object files after the write.
ObjectWriteFiles(files, obj) ==
    LET path == ObjectPath(obj.hash).file
        old == IF path \in DOMAIN files THEN files[path] ELSE <<>>
    IN  [p \in DOMAIN files \cup {path} |->
            IF p = path THEN WrittenFile(old, obj) ELSE files[p]]

\* Object::write: the directories after create_dir_all.
ObjectWriteDirs(dirs, obj) == dirs \cup {ObjectPath(obj.hash).dir}

(***************************************************************************)
(* http_protocol.rs: integers of the pack and delta encodings.             *)
(***************************************************************************)
RECURSIVE Pow2(_)
Pow2(n) == IF n = 0 THEN 1 ELSE 2 * Pow2(n - 1)

BitSet(byte, k) == (byte \div Pow2(k)) % 2 = 1

\* A u32 is held as two 16-bit halves, so that its arithmetic is exact.  A
\* u32 that is used as a size or an offset is compared with lengths of
\* buffers, all of them below SizeCap: as a size, a u32 at or above SizeCap
\* is kept as SizeCap.
U16 == 65536

SizeCap == 536870912

U32Of(n) == [hi |-> (n \div U16) % U16, lo |-> n % U16]

\* (byte as u32) << s, for s in 0..31: the bits shifted out are dropped.
U32Shl(byte, s) ==
    IF s < 16 THEN U32Of(byte * Pow2(s))
    ELSE [hi |-> (byte * Pow2(s - 16)) % U16, lo |-> 0]

\* a + b, wrapped to 32 bits, and whether it overflowed.
U32Add(a, b) ==
    LET lo == a.lo + b.lo
        hi == a.hi + b.hi + (lo \div U16)
    IN  [sum |-> [hi |-> hi % U16, lo |-> lo % U16], overflow |-> hi >= U16]

\* a << 4
U32Shl4(a) == [hi |-> (a.hi * 16 + ((a.lo * 16) \div U16)) % U16, lo |-> (a.lo * 16) % U16]

\* a as usize
AsSize(a) == IF a.hi * 8 >= U16 THEN SizeCap ELSE a.hi * U16 + a.lo

CapSize(n) == IF n >= SizeCap THEN SizeCap ELSE n

\* GitHttpClient::load_varint, from the state (val, shift) of its loop.
\* data[0] on an empty slice panics.  With debug assertions an overflowing
\* shift or addition panics; without them the shift amount and the sum wrap.
RECURSIVE LoadVarintFrom(_, _, _, _)
LoadVarintFrom(data, val, shift, debug) ==
    IF data = <<>> THEN [panic |-> TRUE, val |-> U32Of(0), rest |-> <<>>]
    ELSE LET added == U32Add(val, U32Shl(data[1] % 128, shift % 32))
         IN  IF debug /\ (shift >= 32 \/ added.overflow)
             THEN [panic |-> TRUE, val |-> U32Of(0), rest |-> <<>>]
             ELSE IF data[1] >= 128
             THEN LoadVarintFrom(Tail(data), added.sum, shift + 7, debug)
             ELSE [panic |-> FALSE, val |-> added.sum, rest |-> Tail(data)]

LoadVarint(data, debug) == LoadVarintFrom(data, U32Of(0), 0, debug)

\* PackEntryType::try_from(u8)
PackEntryTypeTryFrom(value) ==
    CASE value = 0 -> [ok |-> FALSE, err |-> "Forbidden value", type |-> "NONE"]
      [] value = 1 -> [ok |-> TRUE, err |-> "", type |-> "OBJ_COMMIT"]
      [] value = 2 -> [ok |-> TRUE, err |-> "", type |-> "OBJ_TREE"]
      [] value = 3 -> [ok |-> TRUE, err |-> "", type |-> "OBJ_BLOB"]
      [] value = 4 -> [ok |-> TRUE, err |-> "", type |-> "OBJ_TAG"]
      [] value = 5 -> [ok |-> FALSE, err |-> "Reserved value", type |-> "NONE"]
      [] value = 6 -> [ok |-> TRUE, err |-> "", type |-> "OBJ_OFS_DELTA"]
      [] value = 7 -> [ok |-> TRUE, err |-> "", type |-> "OBJ_REF_DELTA"]

\* The head of the per-entry loop: type and size of the entry at the cursor.
EntryHeader(cursor, debug) ==
    LET type == PackEntryTypeTryFrom((cursor[1] \div 16) % 8)
        low == cursor[1] % 16
        more == LoadVarint(Tail(cursor), debug)
    IN  IF cursor = <<>>
        THEN [status |-> "panic", err |-> "index out of bounds", bits |-> 0,
              type |-> "NONE", val |-> 0, rest |-> <<>>]
        ELSE IF ~type.ok
        THEN [status |-> "err", err |-> type.err, bits |-> (cursor[1] \div 16) % 8,
              type |-> "NONE", val |-> 0, rest |-> <<>>]
        ELSE IF cursor[1] < 128
        THEN [status |-> "ok", err |-> "", bits |-> (cursor[1] \div 16) % 8,
              type |-> type.type, val |-> low, rest |-> Tail(cursor)]
        ELSE IF more.panic
        THEN [status |-> "panic", err |-> "load_varint", bits |-> (cursor[1] \div 16) % 8,
              type |-> "NONE", val |-> 0, rest |-> <<>>]
        ELSE [status |-> "ok", err |-> "", bits |-> (cursor[1] \div 16) % 8,
              type |-> type.type,
              val |-> AsSize(U32Add(U32Of(low), U32Shl4(more.val)).sum), rest |-> more.rest]

\* The bytes of a COPY instruction that the bits first..first+count-1 of op
\* announce, as a little-endian value; from byte index i of that field.
RECURSIVE GatedBytes(_, _, _, _, _)
GatedBytes(data, op, first, count, i) ==
    IF i = count THEN [panic |-> FALSE, val |-> 0, rest |-> data]
    ELSE IF ~BitSet(op, first + i) THEN GatedBytes(data, op, first, count, i + 1)
    ELSE IF data = <<>> THEN [panic |-> TRUE, val |-> 0, rest |-> <<>>]
    ELSE LET more == GatedBytes(Tail(data), op, first, count, i + 1)
         IN  [panic |-> more.panic,
              val |-> CapSize(AsSize(U32Shl(data[1], 8 * i)) + more.val),
              rest |-> more.rest]

\* The instruction loop of a ref-delta: the output built from source and the
\* instructions, and the instructions executed.
RECURSIVE ApplyDelta(_, _, _, _)
ApplyDelta(source, delta_data, output, ops) ==
    IF delta_data = <<>> THEN [panic |-> FALSE, output |-> output, ops |-> ops]
    ELSE LET op == delta_data[1]
             body == Tail(delta_data)
             offset == GatedBytes(body, op, 0, 4, 0)
             len == GatedBytes(offset.rest, op, 4, 3, 0)
             n == len.val
             ilen == op % 128
         IN  IF op >= 128
             THEN IF offset.panic \/ len.panic \/ offset.val + n > Len(source)
                  THEN [panic |-> TRUE, output |-> output, ops |-> ops]
                  ELSE ApplyDelta(source, len.rest,
                           output \o SubSeq(source, offset.val + 1, offset.val + n),
                           Append(ops, [op |-> "COPY", byte |-> op, offset |-> offset.val,
                                        field |-> len.val,
                                        bytes |-> SubSeq(source, offset.val + 1, offset.val + n)]))
             ELSE IF ilen > Len(body)
                  THEN [panic |-> TRUE, output |-> output, ops |-> ops]
                  ELSE ApplyDelta(source, DropFirst(body, ilen),
                           output \o TakeFirst(body, ilen),
                           Append(ops, [op |-> "INSERT", byte |-> op, offset |-> 0,
                                        field |-> ilen, bytes |-> TakeFirst(body, ilen)]))

(***************************************************************************)
(* http_protocol.rs: pkt-line lengths.                                     *)
(***************************************************************************)
\* hex::decode_to_slice on one ASCII digit; -1 for a byte that is no digit.
HexVal(c) ==
    IF c >= 48 /\ c <= 57 THEN c - 48
    ELSE IF c >= 97 /\ c <= 102 THEN c - 87
    ELSE IF c >= 65 /\ c <= 70 THEN c - 55
    ELSE 0 - 1

\* The two decoded bytes read with the low-order byte first.
DecodeDataLenLittleEndian(prefix) ==
    IF \E i \in 1..4 : HexVal(prefix[i]) < 0
    THEN [ok |-> FALSE, val |-> 0]
    ELSE [ok |-> TRUE,
          val |-> HexVal(prefix[3]) * 4096 + HexVal(prefix[4]) * 256
                  + HexVal(prefix[1]) * 16 + HexVal(prefix[2])]

\* from_utf8 + hex::decode_to_slice + u16::from_be_bytes on the 4-byte prefix.
DecodeDataLen(prefix) ==
    IF \E i \in 1..4 : HexVal(prefix[i]) < 0
    THEN [ok |-> FALSE, val |-> 0]
    ELSE [ok |-> TRUE,
          val |-> HexVal(prefix[1]) * 4096 + HexVal(prefix[2]) * 256
                  + HexVal(prefix[3]) * 16 + HexVal(prefix[4])]

PACK == <<80, 65, 67, 75>>

\* u32::from_be_bytes, as a count
U32FromBe(b) == AsSize([hi |-> b[1] * 256 + b[2], lo |-> b[3] * 256 + b[4]])

Flush == [flush |-> TRUE, data |-> <<>>]

Data(bytes) == [flush |-> FALSE, data |-> bytes]

(***************************************************************************)
(* http_protocol.rs: ref_info and fetch_refs, after the response is parsed.*)
(***************************************************************************)
\* std::str::from_utf8, on the byte strings of the model: ASCII is valid.
IsUtf8(bytes) == \A i \in 1..Len(bytes) : bytes[i] < 128

EndsWith(s, suffix) ==
    Len(s) >= Len(suffix) /\ SubSeq(s, Len(s) - Len(suffix) + 1, Len(s)) = suffix

StartsWith(s, prefix) == Len(s) >= Len(prefix) /\ TakeFirst(s, Len(prefix)) = prefix

ServiceHeaderPrefix == <<35, 32, 115, 101, 114, 118, 105, 99, 101, 61>>

ServiceBytes == <<103, 105, 116, 45, 117, 112, 108, 111, 97, 100, 45, 112, 97, 99, 107>>

PeeledSuffix == <<94, 123, 125>>

HeadName == <<72, 69, 65, 68>>

ZeroId == [i \in 1..(2 * DigestLen) |-> 48]

\* ref_info: the checks on the first frame, "" when they pass.
ServiceHeaderError(frames) ==
    LET data == frames[1].data
    IN  IF frames = <<>> \/ frames[1].flush THEN "Invalid header line"
        ELSE IF ~(\/ Len(data) = 10 + Len(ServiceBytes)
                  \/ (Len(data) = 10 + Len(ServiceBytes) + 1 /\ data[Len(data)] = 10))
        THEN "Invalid header line"
        ELSE IF TakeFirst(data, 10) # ServiceHeaderPrefix THEN "Invalid header prefix"
        ELSE IF SubSeq(data, 11, 10 + Len(ServiceBytes)) # ServiceBytes
        THEN "Invalid header value"
        ELSE ""

RefsResult(status, err, rs) == [status |-> status, err |-> err, refs |-> rs]

\* ref_info::parse_line
ParseLine(rs, line) ==
    LET data == IF line # <<>> /\ line[Len(line)] = 10
                THEN TakeFirst(line, Len(line) - 1) ELSE line
        id == TakeFirst(data, 40)
        name == DropFirst(data, 41)
        l == rs[Len(rs)]
    IN  IF Len(data) < 41 THEN RefsResult("panic", "range end out of bounds", rs)
        ELSE IF data[41] # 32 THEN RefsResult("err", "data[40] == b' '", rs)
        ELSE IF EndsWith(name, PeeledSuffix)
        THEN IF rs = <<>>
             THEN RefsResult("err", "Peeled ref cannot be the first entry", rs)
             ELSE IF l.name # TakeFirst(name, Len(name) - 3)
             THEN RefsResult("err", "peeled name", rs)
             ELSE IF l.peeled_ref # <<>>
             THEN RefsResult("err", "peeled twice", rs)
             ELSE RefsResult("ok", "", [rs EXCEPT ![Len(rs)].peeled_ref = id])
        ELSE IF ~IsUtf8(name) THEN RefsResult("err", "Utf8Error", rs)
        ELSE RefsResult("ok", "", Append(rs, [name |-> name, id |-> id, peeled_ref |-> <<>>]))

\* ref_info: while let Some(PktLine::Data(data)) = lines.pop_front()
RECURSIVE ParseRefLines(_, _)
ParseRefLines(rs, frames) ==
    IF frames = <<>> THEN [status |-> "ok", err |-> "", refs |-> rs, frames |-> <<>>]
    ELSE IF frames[1].flush
    THEN [status |-> "ok", err |-> "", refs |-> rs, frames |-> Tail(frames)]
    ELSE LET r == ParseLine(rs, frames[1].data)
         IN  IF r.status # "ok"
             THEN [status |-> r.status, err |-> r.err, refs |-> rs, frames |-> <<>>]
             ELSE ParseRefLines(r.refs, Tail(frames))

\* ref_info, from the frames parse_pkt_lines returned to the RefInfo.
RefInfoOf(frames) ==
    LET afterHeader == Tail(frames)
        afterFlush == Tail(afterHeader)
        first == afterFlush[1].data
        pos == FirstIndexOf(first, 0)
        afterFirst == Tail(afterFlush)
        firstRef == ParseLine(<<>>, TakeFirst(first, pos - 1))
        others == ParseRefLines(firstRef.refs, afterFirst)
    IN  IF ServiceHeaderError(frames) # ""
        THEN RefsResult("err", ServiceHeaderError(frames), <<>>)
        ELSE IF afterHeader = <<>> \/ ~afterHeader[1].flush
        THEN RefsResult("err", "lines.pop_front() == Some(PktLine::Flush)", <<>>)
        ELSE IF afterFlush = <<>> THEN RefsResult("err", "Missing first data line", <<>>)
        ELSE IF afterFlush[1].flush THEN RefsResult("err", "Invalid first data line", <<>>)
        ELSE IF pos = 0 THEN RefsResult("err", "Missing null-byte in first data line", <<>>)
        ELSE IF ~IsUtf8(DropFirst(first, pos))
        THEN RefsResult("err", "Capabilities must be valid strs", <<>>)
        ELSE IF StartsWith(first, ZeroId)
        THEN IF afterFirst = <<>> \/ ~afterFirst[1].flush
             THEN RefsResult("err", "Data must end with flush line", <<>>)
             ELSE IF Tail(afterFirst) # <<>>
             THEN RefsResult("err", "Unexpected data after last flush line", <<>>)
             ELSE RefsResult("ok", "", <<>>)
        ELSE IF firstRef.status # "ok" THEN firstRef
        ELSE IF others.status # "ok" THEN RefsResult(others.status, others.err, <<>>)
        ELSE IF others.frames # <<>>
        THEN RefsResult("err", "Unexpected data after last flush line", <<>>)
        ELSE RefsResult("ok", "", others.refs)

\* Ord for [u8; 40]: byte-wise lexicographic order.
LexLess(a, b) ==
    \E i \in 1..Len(a) : a[i] < b[i] /\ \A j \in 1..(i - 1) : a[j] = b[j]

\* Iteration of a BTreeSet<&[u8; 40]>: its elements in ascending order.
RECURSIVE Ascending(_)
Ascending(S) ==
    IF S = {} THEN <<>>
    ELSE LET least == CHOOSE x \in S : \A y \in S \ {x} : LexLess(x, y)
         IN  <<least>> \o Ascending(S \ {least})

\* The peeled digests collected along with the ids.
WantedIdsAndPeeled(rs) ==
    {rs[i].id : i \in 1..Len(rs)}
        \cup {rs[i].peeled_ref : i \in {j \in 1..Len(rs) : rs[j].peeled_ref # <<>>}}

\* main.rs: ref_info.refs.iter().map(|r| &r.id).collect()
WantedIds(rs) == {rs[i].id : i \in 1..Len(rs)}

WantPrefix == <<48, 48, 51, 50, 119, 97, 110, 116, 32>>

FlushPkt == <<48, 48, 48, 48>>

DonePkt == <<48, 48, 48, 57, 100, 111, 110, 101, 10>>

\* fetch_refs: the request body for a set of wanted digests.
RequestBody(wanted) ==
    LET ids == Ascending(wanted)
    IN  Concat([i \in 1..Len(ids) |-> WantPrefix \o ids[i] \o <<10>>])
        \o FlushPkt \o DonePkt

NakLine == Data(<<78, 65, 75, 10>>)

\* fetch_refs: the checks on the frames of the response, "" when they pass.
FetchRefsError(frames) ==
    IF frames = <<>> \/ frames[1] # NakLine
    THEN "lines.pop_front() == Some(PktLine::Data(NAK))"
    ELSE IF Tail(frames) # <<>> THEN "lines.is_empty()"
    ELSE ""

(***************************************************************************)
(* Commands on the object store (main.rs).                                 *)
(***************************************************************************)
PayloadBytes == {0, 32}

Payloads == SeqsUpTo(PayloadBytes, MaxPayloadLen)

NoRead == [ok |-> FALSE, err |-> "none", obj |-> NoObject]

NoEntry == [type |-> "NONE", val |-> 0, bits |-> 0]

NoLastEntry ==
    [arm |-> "none", type |-> "NONE", declared |-> 0, inflated |-> 0,
     target_len |-> 0, output_len |-> 0, stored |-> <<>>]

NoWrite == [hash |-> <<>>, existed |-> FALSE]

\* The repository after init: no object yet.
EmptyStore ==
    /\ objDirs = {}
    /\ objFiles = <<>>
    /\ written = {}
    /\ lastRead = NoRead
    /\ lastWrite = NoWrite

\* No clone is running.
CloneAt(at) ==
    /\ pc = at
    /\ caller = "none"
    /\ lines = <<>>
    /\ pkt_lines = <<>>
    /\ rest = <<>>
    /\ packets_left = 0
    /\ entry = NoEntry
    /\ refs = <<>>
    /\ posted = <<>>
    /\ outcome = "running"
    /\ error = ""
    /\ checkedOut = <<>>
    /\ discovered = FALSE
    /\ headersParsed = 0
    /\ persisted = 0
    /\ lastEntry = NoLastEntry
    /\ deltaOps = <<>>
    /\ response = <<>>

NoTree == [hash |-> <<>>, entries |-> <<>>, dir |-> <<>>]

NoParsed == [hash |-> <<>>, status |-> "none", err |-> "", entries |-> <<>>]

NoCheckout == [hash |-> <<>>, status |-> "none", err |-> "", created |-> <<>>]

\* An empty working directory, no tree command run yet.
EmptyWorkdir ==
    /\ workdir = <<>>
    /\ lastTree = NoTree
    /\ parsed = NoParsed
    /\ outdir = <<>>
    /\ lastCheckout = NoCheckout

StoreInit == EmptyStore /\ CloneAt("idle") /\ EmptyWorkdir

\* obj.write(repo), with the history of the store.
StoreWrite(obj) ==
    /\ objDirs' = ObjectWriteDirs(objDirs, obj)
    /\ objFiles' = ObjectWriteFiles(objFiles, obj)
    /\ written' = written \cup {<<obj.header.kind, obj.data>>}
    /\ lastWrite' = [hash |-> obj.hash,
                     existed |-> ObjectPath(obj.hash).file \in DOMAIN objFiles]

\* hash-object -w, write-tree, commit-tree: Object::new(kind, data).write(repo)
WriteObject(kind, data) ==
    LET obj == ObjectNew(kind, data)
    IN  /\ pc = "idle"
        /\ \/ <<kind, data>> \in written
           \/ Cardinality(DOMAIN objFiles) < MaxObjects
        /\ StoreWrite(obj)
        /\ lastRead' = NoRead
        /\ UNCHANGED cloneVars
    /\ UNCHANGED treeVars

\* cat-file, ls-tree: Object::read(repo, hash)
ReadObject(hash) ==
    /\ pc = "idle"
    /\ lastRead' = ObjectRead(objFiles, hash)
    /\ lastWrite' = NoWrite
    /\ UNCHANGED <<objDirs, objFiles, written, cloneVars>>
    /\ UNCHANGED treeVars

\* A digest no object of the model has.
AbsentHash == HexEncode([i \in 1..DigestLen |-> 255])

StoreNext ==
    \/ \E kind \in ObjectKinds, data \in Payloads : WriteObject(kind, data)
    \/ \E w \in written : ReadObject(ObjectNew(w[1], w[2]).hash)
    \/ ReadObject(AbsentHash)

StoreSpec == StoreInit /\ [][StoreNext]_vars

(***************************************************************************)
(* http_protocol.rs: parse_pkt_lines, one loop iteration at a time.        *)
(***************************************************************************)
\* The pkt-line branch of the while loop, on the unconsumed bytes.
PktLineStep(input) ==
    LET prefix == TakeFirst(input, 4)
        after == DropFirst(input, 4)
        data_len == DecodeDataLen(prefix)
    IN  IF Len(input) < 4
        THEN [status |-> "panic", err |-> "split_at: mid > len", frame |-> Flush, lines |-> input]
        ELSE IF ~IsUtf8(prefix) \/ ~data_len.ok
        THEN [status |-> "err", err |-> "Decoding data len hex", frame |-> Flush, lines |-> input]
        ELSE IF data_len.val = 0
        THEN [status |-> "ok", err |-> "", frame |-> Flush, lines |-> after]
        ELSE IF data_len.val < 4
        THEN [status |-> "err", err |-> "pkt-line length must be at least 4",
              frame |-> Flush, lines |-> input]
        ELSE IF Len(after) < data_len.val - 4
        THEN [status |-> "panic", err |-> "split_at: mid > len", frame |-> Flush, lines |-> input]
        ELSE [status |-> "ok", err |-> "",
              frame |-> Data(TakeFirst(after, data_len.val - 4)),
              lines |-> DropFirst(after, data_len.val - 4)]

PackVersion == <<0, 0, 0, 2>>

\* The PACK branch up to the entry loop: version and entry count.
PackHeaderStep(input) ==
    LET after == DropFirst(input, 4)
    IN  IF Len(after) < 4
        THEN [status |-> "panic", err |-> "split_at: mid > len", packets_num |-> 0, rest |-> <<>>]
        ELSE IF TakeFirst(after, 4) # PackVersion
        THEN [status |-> "err", err |-> "Packfile version should be 2",
              packets_num |-> 0, rest |-> <<>>]
        ELSE IF Len(after) < 8
        THEN [status |-> "panic", err |-> "split_at: mid > len", packets_num |-> 0, rest |-> <<>>]
        ELSE [status |-> "ok", err |-> "",
              packets_num |-> U32FromBe(SubSeq(after, 5, 8)), rest |-> DropFirst(after, 8)]

PlainTypes == {"OBJ_COMMIT", "OBJ_TREE", "OBJ_BLOB", "OBJ_TAG"}

\* The plain-object arm of the match, up to Object::new.
PlainStep(cursor, val, type) ==
    LET inflated == ZlibInflate(cursor)
        base == [status |-> "ok", err |-> "", inflated |-> Len(inflated.data),
                 kind |-> "Blob", data |-> inflated.data,
                 rest |-> DropFirst(cursor, inflated.total_in)]
    IN  IF ~inflated.ok
        THEN [base EXCEPT !.status = "err", !.err = "Reading object file"]
        ELSE IF val # Len(inflated.data)
        THEN [base EXCEPT !.status = "err", !.err = "Read incorrect number of bytes"]
        ELSE IF type = "OBJ_TAG"
        THEN [base EXCEPT !.status = "panic", !.err = "not yet implemented"]
        ELSE [base EXCEPT !.kind = CASE type = "OBJ_COMMIT" -> "Commit"
                                     [] type = "OBJ_TREE" -> "Tree"
                                     [] type = "OBJ_BLOB" -> "Blob"]

\* The ref-delta arm of the match, up to Object::new.  debug tells whether
\* the build has debug assertions (debug_assert_eq!, overflow checks).
RefDeltaStep(files, cursor, debug) ==
    LET ref_delta == HexEncode(TakeFirst(cursor, DigestLen))
        inflated == ZlibInflate(DropFirst(cursor, DigestLen))
        source_len == LoadVarint(inflated.data, debug)
        target_len == LoadVarint(source_len.rest, debug)
        source == ObjectRead(files, ref_delta)
        applied == ApplyDelta(source.obj.data, target_len.rest, <<>>, <<>>)
        base == [status |-> "ok", err |-> "", inflated |-> Len(inflated.data),
                 read |-> NoRead, target_len |-> 0, output |-> <<>>, ops |-> <<>>,
                 rest |-> <<>>]
    IN  IF Len(cursor) < DigestLen
        THEN [base EXCEPT !.status = "panic", !.err = "range end out of bounds", !.inflated = 0]
        ELSE IF ~inflated.ok
        THEN [base EXCEPT !.status = "err", !.err = "Reading pack diff"]
        ELSE IF source_len.panic \/ target_len.panic
        THEN [base EXCEPT !.status = "panic", !.err = "load_varint"]
        ELSE IF ~source.ok
        THEN [base EXCEPT !.status = "err", !.err = source.err, !.read = source,
                          !.target_len = AsSize(target_len.val)]
        ELSE IF applied.panic
        THEN [base EXCEPT !.status = "panic", !.err = "range end out of bounds",
                          !.read = source, !.target_len = AsSize(target_len.val),
                          !.ops = applied.ops]
        ELSE IF debug /\ Len(applied.output) # AsSize(target_len.val)
        THEN [base EXCEPT !.status = "panic", !.err = "assertion failed",
                          !.read = source, !.target_len = AsSize(target_len.val),
                          !.output = applied.output, !.ops = applied.ops]
        ELSE [base EXCEPT !.read = source, !.target_len = AsSize(target_len.val),
                          !.output = applied.output, !.ops = applied.ops,
                          !.rest = DropFirst(DropFirst(cursor, DigestLen), inflated.total_in)]

\* The reconstructed object stored as a blob whatever its base is.
RefDeltaKindBlob(source) == "Blob"

\* The kind a ref-delta's output is stored with: source.header.kind
RefDeltaKind(source) == source.header.kind

\* The end of the PACK branch: checksum, then nothing may follow.
PackTrailerStep(cursor) ==
    IF Len(cursor) < DigestLen
    THEN [status |-> "panic", err |-> "range end out of bounds"]
    ELSE IF DropFirst(cursor, DigestLen) # <<>>
    THEN [status |-> "err", err |-> "Unexpected data after pack data"]
    ELSE [status |-> "ok", err |-> ""]

(***************************************************************************)
(* The clone command (main.rs), step by step.                              *)
(***************************************************************************)
\* The command ends: Ok(()) / Err(..) returned from main, or a panic.
Stop(how, msg) ==
    /\ pc' = "done"
    /\ outcome' = how
    /\ error' = msg

Continue(at) ==
    /\ pc' = at
    /\ UNCHANGED <<outcome, error>>

\* Either go on at `at` or end with the failure of a step.
After(status, err, at) ==
    IF status = "ok" THEN Continue(at) ELSE Stop(status, err)

\* A response has arrived: validate_content_type, then parse_pkt_lines on it.
Receive(content_type_ok, body, from) ==
    IF content_type_ok
    THEN /\ Continue("parse")
         /\ caller' = from
         /\ lines' = body
         /\ pkt_lines' = <<>>
         /\ response' = body
    ELSE /\ Stop("err", "Unexpected Content-Type header value")
         /\ UNCHANGED <<caller, lines, pkt_lines, response>>

\* ref_info: the GET of info/refs.
RefInfoGet(content_type_ok, body) ==
    /\ pc = "start"
    /\ Receive(content_type_ok, body, "ref_info")
    /\ UNCHANGED <<storeVars, rest, packets_left, entry, refs, posted, checkedOut,
                   discovered, headersParsed, persisted, lastEntry, deltaOps>>
    /\ UNCHANGED treeVars

\* parse_pkt_lines: one frame of the pkt-line branch.
ParseFrame ==
    /\ pc = "parse"
    /\ lines # <<>>
    /\ ~StartsWith(lines, PACK)
    /\ LET step == PktLineStep(lines)
       IN  /\ After(step.status, step.err, "parse")
           /\ lines' = step.lines
           /\ pkt_lines' = IF step.status = "ok" THEN Append(pkt_lines, step.frame)
                           ELSE pkt_lines
    /\ UNCHANGED <<storeVars, caller, rest, packets_left, entry, refs, posted,
                   checkedOut, historyVars>>
    /\ UNCHANGED treeVars

\* parse_pkt_lines: the PACK magic, version and entry count.
ParsePackHeader ==
    /\ pc = "parse"
    /\ StartsWith(lines, PACK)
    /\ LET step == PackHeaderStep(lines)
       IN  /\ After(step.status, step.err, "entry")
           /\ rest' = step.rest
           /\ packets_left' = step.packets_num
    /\ UNCHANGED <<storeVars, caller, lines, pkt_lines, entry, refs, posted,
                   checkedOut, historyVars>>
    /\ UNCHANGED treeVars

\* parse_pkt_lines: type and size of the next pack entry.
ParseEntryHeader ==
    /\ pc = "entry"
    /\ packets_left > 0
    /\ \E debug \in BOOLEAN :
         LET step == EntryHeader(rest, debug)
         IN  /\ After(step.status, step.err, "body")
             /\ entry' = [type |-> step.type, val |-> step.val, bits |-> step.bits]
             /\ rest' = IF step.status = "ok" THEN step.rest ELSE rest
             /\ headersParsed' = headersParsed + 1
    /\ UNCHANGED <<storeVars, caller, lines, pkt_lines, packets_left, refs, posted,
                   checkedOut, discovered, persisted, lastEntry, deltaOps, response>>
    /\ UNCHANGED treeVars

\* parse_pkt_lines: a commit, tree, blob or tag entry.
ProcessPlain ==
    /\ pc = "body"
    /\ entry.type \in PlainTypes
    /\ LET step == PlainStep(rest, entry.val, entry.type)
           obj == ObjectNew(step.kind, step.data)
       IN  /\ After(step.status, step.err, "entry")
           /\ IF step.status = "ok"
              THEN /\ StoreWrite(obj)
                   /\ rest' = step.rest
                   /\ packets_left' = packets_left - 1
                   /\ persisted' = persisted + 1
              ELSE UNCHANGED <<objDirs, objFiles, written, lastWrite, rest,
                               packets_left, persisted>>
           /\ lastEntry' = [arm |-> "plain", type |-> entry.type,
                            declared |-> entry.val,
                            inflated |-> step.inflated, target_len |-> 0,
                            output_len |-> 0,
                            stored |-> IF step.status = "ok" THEN obj.hash ELSE <<>>]
    /\ UNCHANGED <<lastRead, caller, lines, pkt_lines, entry, refs, posted,
                   checkedOut, discovered, headersParsed, deltaOps, response>>
    /\ UNCHANGED treeVars

\* parse_pkt_lines: an offset-delta entry, todo!().
ProcessOfsDelta ==
    /\ pc = "body"
    /\ entry.type = "OBJ_OFS_DELTA"
    /\ Stop("panic", "not yet implemented: OFS_DELTA object")
    /\ UNCHANGED <<storeVars, caller, parseVars, refs, posted, checkedOut, historyVars>>
    /\ UNCHANGED treeVars

\* parse_pkt_lines: a ref-delta entry.
ProcessRefDelta ==
    /\ pc = "body"
    /\ entry.type = "OBJ_REF_DELTA"
    /\ \E debug \in BOOLEAN :
         LET step == RefDeltaStep(objFiles, rest, debug)
             obj == ObjectNew(RefDeltaKind(step.read.obj), step.output)
         IN  /\ After(step.status, step.err, "entry")
             /\ IF step.status = "ok"
                THEN /\ StoreWrite(obj)
                     /\ rest' = step.rest
                     /\ packets_left' = packets_left - 1
                     /\ persisted' = persisted + 1
                ELSE UNCHANGED <<objDirs, objFiles, written, lastWrite, rest,
                                 packets_left, persisted>>
             /\ lastRead' = step.read
             /\ deltaOps' = step.ops
             /\ lastEntry' = [arm |-> "ref_delta", type |-> entry.type,
                              declared |-> entry.val,
                              inflated |-> step.inflated,
                              target_len |-> step.target_len,
                              output_len |-> Len(step.output),
                              stored |-> IF step.status = "ok" THEN obj.hash ELSE <<>>]
    /\ UNCHANGED <<caller, lines, pkt_lines, entry, refs, posted, checkedOut,
                   discovered, headersParsed, response>>
    /\ UNCHANGED treeVars

\* parse_pkt_lines: after the last entry, the checksum ends the input.
ParsePackTrailer ==
    /\ pc = "entry"
    /\ packets_left = 0
    /\ LET step == PackTrailerStep(rest)
       IN  /\ After(step.status, step.err, "parse")
           /\ lines' = IF step.status = "ok" THEN <<>> ELSE lines
    /\ UNCHANGED <<storeVars, caller, pkt_lines, rest, packets_left, entry, refs,
                   posted, checkedOut, historyVars>>
    /\ UNCHANGED treeVars

\* parse_pkt_lines returns Ok(pkt_lines) to ref_info or fetch_refs.
ParseReturn ==
    /\ pc = "parse"
    /\ lines = <<>>
    /\ Continue(caller)
    /\ UNCHANGED <<storeVars, caller, parseVars, refs, posted, checkedOut, historyVars>>
    /\ UNCHANGED treeVars

\* ref_info: the frames are turned into the ref list.
RefInfoReturn ==
    /\ pc = "ref_info"
    /\ LET info == RefInfoOf(pkt_lines)
       IN  /\ After(info.status, info.err, "post")
           /\ refs' = info.refs
           /\ discovered' = (info.status = "ok")
    /\ UNCHANGED <<storeVars, caller, parseVars, posted, checkedOut, headersParsed,
                   persisted, lastEntry, deltaOps, response>>
    /\ UNCHANGED treeVars

\* fetch_refs: the POST of the wants and its response.
FetchRefsPost(content_type_ok, body) ==
    /\ pc = "post"
    /\ posted' = RequestBody(WantedIds(refs))
    /\ Receive(content_type_ok, body, "fetch_refs")
    /\ UNCHANGED <<storeVars, rest, packets_left, entry, refs, checkedOut,
                   discovered, headersParsed, persisted, lastEntry, deltaOps>>
    /\ UNCHANGED treeVars

\* fetch_refs: the frames must be the NAK line alone.
FetchRefsReturn ==
    /\ pc = "fetch_refs"
    /\ LET err == FetchRefsError(pkt_lines)
       IN  After(IF err = "" THEN "ok" ELSE "err", err, "head")
    /\ UNCHANGED <<storeVars, caller, parseVars, refs, posted, checkedOut, historyVars>>
    /\ UNCHANGED treeVars

\* Commands::Clone after fetch_refs: checkout of HEAD.
CloneHead ==
    /\ pc = "head"
    /\ IF refs # <<>>
       THEN IF refs[1].name = HeadName
            THEN IF IsUtf8(refs[1].id)
                 THEN Continue("checkout") /\ checkedOut' = refs[1].id
                 ELSE Stop("err", "FromUtf8Error") /\ UNCHANGED checkedOut
            ELSE Stop("ok", "") /\ UNCHANGED checkedOut
       ELSE Stop("err", "Missing HEAD reference") /\ UNCHANGED checkedOut
    /\ UNCHANGED <<storeVars, caller, parseVars, refs, posted, historyVars>>
    /\ UNCHANGED treeVars

\* repo.checkout(..) returns, with Ok or with an error.
CheckoutReturn(ok) ==
    /\ pc = "checkout"
    /\ Stop(IF ok THEN "ok" ELSE "err", IF ok THEN "" ELSE "checkout")
    /\ UNCHANGED <<storeVars, caller, parseVars, refs, posted, checkedOut, historyVars>>
    /\ UNCHANGED treeVars

(***************************************************************************)
(* The server: the response bodies the clone is run against.               *)
(***************************************************************************)
MaxEntries == 2

\* A pkt-line as a server emits it: 4 hex digits of length, then the data.
PktLine(data) ==
    LET n == Len(data) + 4
    IN  <<HexDigit(n \div 4096), HexDigit((n \div 256) % 16),
          HexDigit((n \div 16) % 16), HexDigit(n % 16)>> \o data

RECURSIVE VarintBytes(_)
VarintBytes(n) ==
    IF n < 128 THEN <<n>> ELSE <<128 + (n % 128)>> \o VarintBytes(n \div 128)

\* The type+size header of a pack entry as a server emits it.
EntryHeadBytes(type, size) ==
    IF size < 16 THEN <<type * 16 + size>>
    ELSE <<128 + type * 16 + (size % 16)>> \o VarintBytes(size \div 16)

PlainEntry(type, size, payload) == EntryHeadBytes(type, size) \o ZlibCompress(payload)

RawDigest(kind, data) == Sha1(HeaderAsStr([kind |-> kind, data_length |-> Len(data)]) \o data)

RefDeltaEntry(size, base, delta) == EntryHeadBytes(7, size) \o base \o ZlibCompress(delta)

PackChecksum == [i \in 1..DigestLen |-> 0]

PackStream(entries, count) ==
    PACK \o PackVersion \o <<0, 0, 0, count>> \o Concat(entries) \o PackChecksum

\* The objects of the served repository.
SourceBlob == <<97, 98, 99, 100>>

CommitData == <<99>>

LongBlob == [i \in 1..17 |-> 122]

BaseEntries ==
    { PlainEntry(3, Len(SourceBlob), SourceBlob),
      PlainEntry(1, Len(CommitData), CommitData),
      PlainEntry(2, 0, <<>>) }

\* Deltas against SourceBlob: source size, target size, instructions.
DeltaInsertCopy == <<4, 3, 1, 120, 145, 1, 2>>

DeltaCopyMasks == <<4, 5, 179, 1, 0, 2, 0, 144, 3>>

DeltaShortOutput == <<4, 5, 1, 120>>

DeltaCopyZeroLen == <<4, 1, 1, 120, 128>>

DeltaZeroOp == <<4, 1, 0, 1, 120>>

DeltaInsertCut == <<4, 2, 2, 120>>

DeltaCopyOutside == <<4, 4, 145, 3, 4>>

\* A delta against CommitData.
DeltaOnCommit == <<1, 2, 1, 120, 144, 1>>

\* Deltas cut short: a COPY without its offset and length bytes, and a delta
\* without its size varints.
DeltaCopyCut == <<4, 1, 145>>

DeltaEmpty == <<>>

ProbeEntries ==
    { PlainEntry(4, 1, <<116>>),
      PlainEntry(6, 1, <<116>>),
      PlainEntry(0, 1, <<116>>),
      PlainEntry(5, 1, <<116>>),
      PlainEntry(3, 3, <<120, 121>>),
      PlainEntry(3, Len(LongBlob), LongBlob),
      RefDeltaEntry(Len(DeltaInsertCopy), RawDigest("Blob", SourceBlob), DeltaInsertCopy),
      RefDeltaEntry(Len(DeltaInsertCopy) + 2, RawDigest("Blob", SourceBlob), DeltaInsertCopy),
      RefDeltaEntry(Len(DeltaCopyMasks), RawDigest("Blob", SourceBlob), DeltaCopyMasks),
      RefDeltaEntry(Len(DeltaShortOutput), RawDigest("Blob", SourceBlob), DeltaShortOutput),
      RefDeltaEntry(Len(DeltaCopyZeroLen), RawDigest("Blob", SourceBlob), DeltaCopyZeroLen),
      RefDeltaEntry(Len(DeltaZeroOp), RawDigest("Blob", SourceBlob), DeltaZeroOp),
      RefDeltaEntry(Len(DeltaInsertCut), RawDigest("Blob", SourceBlob), DeltaInsertCut),
      RefDeltaEntry(Len(DeltaCopyOutside), RawDigest("Blob", SourceBlob), DeltaCopyOutside),
      RefDeltaEntry(Len(DeltaOnCommit), RawDigest("Commit", CommitData), DeltaOnCommit),
      RefDeltaEntry(Len(DeltaCopyCut), RawDigest("Blob", SourceBlob), DeltaCopyCut),
      RefDeltaEntry(Len(DeltaEmpty), RawDigest("Blob", SourceBlob), DeltaEmpty) }

\* The entry lists of the packs served: the objects of the repository in any
\* order, with at most one of the probe entries among them.
EntryLists ==
    { es \in UNION {[1..n -> BaseEntries \cup ProbeEntries] : n \in 0..MaxEntries} :
        Cardinality({i \in DOMAIN es : es[i] \in ProbeEntries}) <= 1 }

NakPkt == PktLine(<<78, 65, 75, 10>>)

PostBodies ==
    { NakPkt \o PackStream(es, Len(es)) : es \in EntryLists }
    \cup { NakPkt,
           PackStream(<<>>, 0),
           PktLine(<<69, 82, 82, 10>>) \o PackStream(<<>>, 0),
           NakPkt \o FlushPkt \o PackStream(<<>>, 0),
           NakPkt \o PackStream(<<>>, 1),
           NakPkt \o PackStream(<<>>, 0) \o FlushPkt,
           NakPkt \o PACK \o <<0, 0, 0, 3, 0, 0, 0, 0>> \o PackChecksum,
           NakPkt \o PACK \o PackVersion \o <<0, 0, 0, 0, 0>>,
           NakPkt \o <<48, 48, 48, 51>>,
           NakPkt \o <<48, 48>>,
           DonePkt \o FlushPkt,
           NakPkt \o <<48, 48, 48, 57, 100, 111>>,
           NakPkt \o PACK \o <<0, 0>>,
           NakPkt \o PACK \o PackVersion \o <<0, 0>>,
           NakPkt \o PACK \o PackVersion \o <<0, 0, 0, 1>>,
           NakPkt \o PACK \o PackVersion \o <<0, 0, 0, 1, 176>>,
           NakPkt \o PACK \o PackVersion \o <<0, 0, 0, 1, 112, 1, 2>> }

\* The ref advertisement.
ServiceLine == PktLine(ServiceHeaderPrefix \o ServiceBytes \o <<10>>)

Capabilities == <<0, 97, 103, 101, 110, 116, 61, 120>>

MasterName == <<114, 101, 102, 115, 47, 104, 101, 97, 100, 115, 47, 109, 97, 115, 116, 101, 114>>

TagName == <<114, 101, 102, 115, 47, 116, 97, 103, 115, 47, 118, 49>>

HeadId == ObjectNew("Commit", CommitData).hash

BlobId == ObjectNew("Blob", SourceBlob).hash

TreeId == ObjectNew("Tree", <<>>).hash

RefLine(id, name) == id \o <<32>> \o name

GetBodies ==
    { ServiceLine \o FlushPkt
        \o PktLine(RefLine(HeadId, HeadName) \o Capabilities \o <<10>>)
        \o PktLine(RefLine(HeadId, MasterName) \o <<10>>) \o FlushPkt,
      ServiceLine \o FlushPkt
        \o PktLine(RefLine(HeadId, HeadName) \o Capabilities \o <<10>>)
        \o PktLine(RefLine(BlobId, TagName) \o <<10>>)
        \o PktLine(RefLine(TreeId, TagName \o PeeledSuffix) \o <<10>>) \o FlushPkt,
      ServiceLine \o FlushPkt
        \o PktLine(RefLine(HeadId, MasterName) \o Capabilities \o <<10>>) \o FlushPkt,
      ServiceLine \o FlushPkt
        \o PktLine(RefLine(ZeroId, <<99, 97, 112, 97, 98, 105, 108, 105, 116, 105, 101, 115>>
                                    \o PeeledSuffix) \o Capabilities \o <<10>>)
        \o FlushPkt,
      ServiceLine \o FlushPkt
        \o PktLine(RefLine(HeadId, HeadName) \o Capabilities \o <<10>>) \o FlushPkt
        \o PackStream(<<PlainEntry(3, Len(SourceBlob), SourceBlob)>>, 1),
      ServiceLine \o PktLine(RefLine(HeadId, HeadName) \o Capabilities \o <<10>>) \o FlushPkt,
      ServiceLine \o FlushPkt \o PktLine(RefLine(HeadId, HeadName) \o <<10>>) \o FlushPkt,
      ServiceLine \o FlushPkt \o PktLine(TakeFirst(HeadId, 8) \o Capabilities) \o FlushPkt,
      <<48, 48>>,
      <<>> }

(***************************************************************************)
(* The clone command as a state machine.                                   *)
(***************************************************************************)
\* Commands::Clone after create_dir_all, GitRepo::new and repo.init().
Init == EmptyStore /\ CloneAt("start") /\ EmptyWorkdir

Next ==
    \/ \E ok \in BOOLEAN, body \in GetBodies : RefInfoGet(ok, body)
    \/ ParseFrame
    \/ ParsePackHeader
    \/ ParseEntryHeader
    \/ ProcessPlain
    \/ ProcessOfsDelta
    \/ ProcessRefDelta
    \/ ParsePackTrailer
    \/ ParseReturn
    \/ RefInfoReturn
    \/ \E ok \in BOOLEAN, body \in PostBodies : FetchRefsPost(ok, body)
    \/ FetchRefsReturn
    \/ CloneHead
    \/ \E ok \in BOOLEAN : CheckoutReturn(ok)

Spec == Init /\ [][Next]_vars

(***************************************************************************)
(* tree.rs                                                                 *)
(***************************************************************************)
ModeDir == <<52, 48, 48, 48, 48>>

ModeSymlink == <<49, 50, 48, 48, 48, 48>>

ModeFile == <<49, 48, 48, 54, 52, 52>>

ModeExecutable == <<49, 48, 48, 55, 53, 53>>

\* hex::decode: one byte per two hex digits.
HexDecode(hex) ==
    [i \in 1..(Len(hex) \div 2) |-> HexVal(hex[2 * i - 1]) * 16 + HexVal(hex[2 * i])]

TreeResult(status, err, entries) == [status |-> status, err |-> err, entries |-> entries]

\* The loop of Tree::try_from: one entry per NUL found; it ends at the first
\* point where the remaining bytes hold no NUL.
RECURSIVE TreeParseLoop(_, _)
TreeParseLoop(data, entries) ==
    LET split == FirstIndexOf(data, 0)
        header == TakeFirst(data, split - 1)
        sp == FirstIndexOf(header, 32)
    IN  IF split = 0 THEN TreeResult("ok", "", entries)
        ELSE IF ~IsUtf8(header) THEN TreeResult("err", "Parsing entry header", <<>>)
        ELSE IF sp = 0 THEN TreeResult("err", "Invalid entry header", <<>>)
        ELSE IF Len(data) < split + DigestLen
        THEN TreeResult("panic", "range end out of bounds", <<>>)
        ELSE TreeParseLoop(DropFirst(data, split + DigestLen),
                 Append(entries,
                     [mode |-> TakeFirst(header, sp - 1),
                      name |-> DropFirst(header, sp),
                      reference |-> SubSeq(data, split + 1, split + DigestLen)]))

\* impl TryFrom<Object> for Tree
TreeTryFrom(object) ==
    IF object.header.kind # "Tree" THEN TreeResult("err", "Invalid object kind", <<>>)
    ELSE TreeParseLoop(object.data, <<>>)

\* Tree::to_bytes
TreeToBytes(entries) ==
    Concat([i \in 1..Len(entries) |->
        entries[i].mode \o <<32>> \o entries[i].name \o <<0>> \o entries[i].reference])

\* Tree::into_object
TreeIntoObject(entries) == ObjectNew("Tree", TreeToBytes(entries))

\* Ord for String: byte-wise, a proper prefix first.
StrLess(a, b) ==
    \E i \in 1..(Len(b)) :
        /\ \A j \in 1..(i - 1) : j <= Len(a) /\ a[j] = b[j]
        /\ (i > Len(a) \/ a[i] < b[i])

\* entries.sort_unstable_by(|a, b| a.name.cmp(&b.name)), on the entries of one
\* directory, whose names differ.
RECURSIVE SortByName(_)
SortByName(S) ==
    IF S = {} THEN <<>>
    ELSE LET least == CHOOSE x \in S : \A y \in S \ {x} : StrLess(x.name, y.name)
         IN  <<least>> \o SortByName(S \ {least})

\* Tree::filemode
FileMode(item) == IF item.exec THEN ModeExecutable ELSE ModeFile

\* fs::read_dir(root): the paths of the items directly under root.
ReadDir(fs, root) ==
    {p \in DOMAIN fs : Len(p) = Len(root) + 1 /\ TakeFirst(p, Len(root)) = root}

\* Tree::create and Tree::write, one inside the other: the entries of the
\* tree of directory root, and the objects written to the store on the way.
\* The .git directory, which create skips, is not held in fs.
RECURSIVE TreeCreate(_, _)
TreeCreate(fs, root) ==
    LET sub(p) == TreeCreate(fs, p)
        entryOf(p) ==
            CASE fs[p].type = "dir" ->
                   [mode |-> ModeDir, name |-> p[Len(p)],
                    reference |-> HexDecode(TreeIntoObject(sub(p).entries).hash)]
              [] fs[p].type = "file" ->
                   [mode |-> FileMode(fs[p]), name |-> p[Len(p)],
                    reference |-> HexDecode(ObjectNew("Blob", fs[p].bytes).hash)]
              [] fs[p].type = "symlink" ->
                   [mode |-> ModeSymlink, name |-> p[Len(p)], reference |-> fs[p].bytes]
        objectsOf(p) ==
            CASE fs[p].type = "dir" -> sub(p).objects \cup {TreeIntoObject(sub(p).entries)}
              [] fs[p].type = "file" -> {ObjectNew("Blob", fs[p].bytes)}
              [] fs[p].type = "symlink" -> {}
    IN  [entries |-> SortByName({entryOf(p) : p \in ReadDir(fs, root)}),
         objects |-> UNION {objectsOf(p) : p \in ReadDir(fs, root)}]

FileItem(bytes, exec) == [type |-> "file", exec |-> exec, bytes |-> bytes]

LinkItem(target) == [type |-> "symlink", exec |-> FALSE, bytes |-> target]

DirItem == [type |-> "dir", exec |-> FALSE, bytes |-> <<>>]

Put(f, k, v) == [x \in DOMAIN f \cup {k} |-> IF x = k THEN v ELSE f[x]]

\* The path File::create opens: symlinks at the path are followed, the root
\* path stands for a chain that does not end.
RECURSIVE FollowLinks(_, _, _)
FollowLinks(fs, path, fuel) ==
    IF path \in DOMAIN fs /\ fs[path].type = "symlink"
    THEN IF fuel = 0 THEN <<>>
         ELSE FollowLinks(fs, Append(TakeFirst(path, Len(path) - 1), fs[path].bytes), fuel - 1)
    ELSE path

\* File::create(subpath): a new file is empty and not executable, a file
\* that exists is truncated and keeps its permissions.
FileCreate(fs, subpath) ==
    LET target == FollowLinks(fs, subpath, Cardinality(DOMAIN fs))
    IN  IF target = <<>> THEN [ok |-> FALSE, err |-> "Too many levels of symbolic links",
                               path |-> target, fs |-> fs]
        ELSE IF target \in DOMAIN fs /\ fs[target].type = "dir"
        THEN [ok |-> FALSE, err |-> "Is a directory", path |-> target, fs |-> fs]
        ELSE IF target \in DOMAIN fs
        THEN [ok |-> TRUE, err |-> "", path |-> target,
              fs |-> Put(fs, target, FileItem(<<>>, fs[target].exec))]
        ELSE [ok |-> TRUE, err |-> "", path |-> target,
              fs |-> Put(fs, target, FileItem(<<>>, FALSE))]

\* Tree::set_permissions: set_mode changes the Permissions value read from
\* the metadata, which is dropped; the file keeps the mode it has.
SetPermissions(item, executable) == item

CheckoutResult(status, err, fs, created) ==
    [status |-> status, err |-> err, out |-> fs, created |-> created]

\* Tree::checkout: the entries in order, into directory path of fs; created
\* lists the files and symlinks made, with the entry each was made for.
RECURSIVE TreeCheckout(_, _, _, _, _)
TreeCheckout(files, entries, path, fs, created) ==
    IF entries = <<>> THEN CheckoutResult("ok", "", fs, created)
    ELSE
    LET e == Head(entries)
        subpath == Append(path, e.name)
        made == [path |-> subpath, mode |-> e.mode, reference |-> e.reference]
        read == ObjectRead(files, HexEncode(e.reference))
        subtree == TreeTryFrom(read.obj)
        withDir == Put(fs, subpath, DirItem)
        inner == TreeCheckout(files, subtree.entries, subpath, withDir, created)
        file == FileCreate(fs, subpath)
        withFile == [file.fs EXCEPT ![file.path] =
                        SetPermissions(file.fs[file.path], e.mode = ModeExecutable)]
        written_to == [withFile EXCEPT ![file.path].bytes = read.obj.data]
    IN  CASE e.mode = ModeDir ->
               IF subpath \in DOMAIN fs THEN CheckoutResult("err", "File exists", fs, created)
               ELSE IF ~read.ok THEN CheckoutResult("err", read.err, withDir, created)
               ELSE IF subtree.status # "ok"
               THEN CheckoutResult(subtree.status, subtree.err, withDir, created)
               ELSE IF inner.status # "ok" THEN inner
               ELSE TreeCheckout(files, Tail(entries), path, inner.out, inner.created)
          [] e.mode = ModeSymlink ->
               IF subpath \in DOMAIN fs THEN CheckoutResult("err", "File exists", fs, created)
               ELSE TreeCheckout(files, Tail(entries), path,
                        Put(fs, subpath, LinkItem(HexEncode(e.reference))),
                        Append(created, made))
          [] e.mode = ModeFile \/ e.mode = ModeExecutable ->
               IF ~file.ok THEN CheckoutResult("err", file.err, fs, created)
               ELSE IF ~read.ok THEN CheckoutResult("err", read.err, withFile, created)
               ELSE TreeCheckout(files, Tail(entries), path, written_to,
                        Append(created, made))
          [] OTHER -> CheckoutResult("err", "Unrecognized filemode", fs, created)

(***************************************************************************)
(* The tree commands (main.rs): write-tree, ls-tree, and the checkout of a *)
(* tree into an empty directory.                                           *)
(***************************************************************************)
MaxItems == 2

NameA == <<97>>

NameB == <<98>>

NameD == <<100>>

\* The places of the working directory: two names at the top, a directory
\* and a name inside it.
WorkPaths == {<<NameA>>, <<NameB>>, <<NameD>>, <<NameD, NameA>>}

FileContents == {<<>>, <<120>>}

\* Link targets: a short one, and one as long as a digest.
LinkTarget == <<116>>

LongLinkTarget == [i \in 1..DigestLen |-> 116]

WorkItems(path) ==
    IF path = <<NameD>> THEN {DirItem}
    ELSE {FileItem(bytes, exec) : bytes \in FileContents, exec \in BOOLEAN}
         \cup {LinkItem(LinkTarget), LinkItem(LongLinkTarget)}

\* One record of a tree payload.
TreeRecord(mode, name, reference) == mode \o <<32>> \o name \o <<0>> \o reference

BlobX == RawDigest("Blob", <<120>>)

\* Tree payloads that reach the store in a pack: records cut short, trailing
\* bytes, headers without a space or with a byte that is no UTF-8, a mode
\* checkout does not know, and whole trees.
TreeProbes ==
    { <<"Tree", ModeFile \o <<32>> \o NameA>>,
      <<"Tree", ModeFile \o <<32>> \o NameA \o <<0, 1, 2>>>>,
      <<"Tree", TreeRecord(ModeFile, NameA, BlobX) \o <<120>>>>,
      <<"Tree", TreeRecord(ModeFile, NameA, BlobX) \o ModeFile \o <<32>> \o NameB \o <<0, 1>>>>,
      <<"Tree", ModeFile \o NameA \o <<0>> \o BlobX>>,
      <<"Tree", TreeRecord(<<200>>, NameA, BlobX)>>,
      <<"Tree", TreeRecord(<<49>>, NameA, BlobX)>>,
      <<"Tree", TreeRecord(ModeExecutable, NameA, BlobX)
                  \o TreeRecord(ModeSymlink, NameB, BlobX)>> }

\* The digests of the objects in the store.
StoredHashes == {p[1] \o p[2] : p \in DOMAIN objFiles}

\* A file, a symlink or a directory appears in the working directory; the
\* directory is filled before the first object is stored.
AddItem(path, item) ==
    /\ pc = "tree"
    /\ objFiles = <<>>
    /\ path \notin DOMAIN workdir
    /\ Cardinality(DOMAIN workdir) < MaxItems
    /\ Len(path) > 1 =>
         /\ TakeFirst(path, Len(path) - 1) \in DOMAIN workdir
         /\ workdir[TakeFirst(path, Len(path) - 1)].type = "dir"
    /\ workdir' = Put(workdir, path, item)
    /\ UNCHANGED <<storeVars, cloneVars, lastTree, parsed, outdir, lastCheckout>>

\* Object::write of each object of a set.
RECURSIVE WriteAllFiles(_, _)
WriteAllFiles(files, objs) ==
    IF objs = {} THEN files
    ELSE LET o == CHOOSE x \in objs : TRUE
         IN  WriteAllFiles(ObjectWriteFiles(files, o), objs \ {o})

\* write-tree: Tree::write(repo, repo_root)
WriteTree ==
    LET built == TreeCreate(workdir, <<>>)
        obj == TreeIntoObject(built.entries)
        objs == built.objects \cup {obj}
    IN  /\ pc = "tree"
        /\ objDirs' = objDirs \cup {ObjectPath(o.hash).dir : o \in objs}
        /\ objFiles' = WriteAllFiles(objFiles, objs)
        /\ written' = written \cup {<<o.header.kind, o.data>> : o \in objs}
        /\ lastWrite' = [hash |-> obj.hash,
                         existed |-> ObjectPath(obj.hash).file \in DOMAIN objFiles]
        /\ lastTree' = [hash |-> obj.hash, entries |-> built.entries, dir |-> workdir]
        /\ lastRead' = NoRead
        /\ parsed' = NoParsed
        /\ outdir' = <<>>
        /\ lastCheckout' = NoCheckout
        /\ UNCHANGED <<cloneVars, workdir>>

\* An object arrives as a plain pack entry does: Object::new(kind, buf).write
StorePackObject(kind, data) ==
    /\ pc = "tree"
    /\ written \cap TreeProbes = {}
    /\ StoreWrite(ObjectNew(kind, data))
    /\ lastRead' = NoRead
    /\ parsed' = NoParsed
    /\ outdir' = <<>>
    /\ lastCheckout' = NoCheckout
    /\ UNCHANGED <<cloneVars, workdir, lastTree>>

\* ls-tree: Object::read, then Tree::try_from
LsTree(hash) ==
    LET read == ObjectRead(objFiles, hash)
        tree == TreeTryFrom(read.obj)
    IN  /\ pc = "tree"
        /\ lastRead' = read
        /\ parsed' = IF read.ok
                     THEN [hash |-> hash, status |-> tree.status, err |-> tree.err,
                           entries |-> tree.entries]
                     ELSE [hash |-> hash, status |-> "err", err |-> read.err,
                           entries |-> <<>>]
        /\ outdir' = <<>>
        /\ lastCheckout' = NoCheckout
        /\ lastWrite' = NoWrite
        /\ UNCHANGED <<objDirs, objFiles, written, cloneVars, workdir, lastTree>>

\* Tree::checkout as it runs on a tree named by its digest (lines 113-116):
\* the object is read, parsed and checked out, here into an empty directory.
CheckoutTree(hash) ==
    LET read == ObjectRead(objFiles, hash)
        tree == TreeTryFrom(read.obj)
        done == TreeCheckout(objFiles, tree.entries, <<>>, <<>>, <<>>)
    IN  /\ pc = "tree"
        /\ lastRead' = read
        /\ parsed' = NoParsed
        /\ IF ~read.ok
           THEN /\ outdir' = <<>>
                /\ lastCheckout' = [hash |-> hash, status |-> "err", err |-> read.err,
                                    created |-> <<>>]
           ELSE IF tree.status # "ok"
           THEN /\ outdir' = <<>>
                /\ lastCheckout' = [hash |-> hash, status |-> tree.status,
                                    err |-> tree.err, created |-> <<>>]
           ELSE /\ outdir' = done.out
                /\ lastCheckout' = [hash |-> hash, status |-> done.status,
                                    err |-> done.err, created |-> done.created]
        /\ lastWrite' = NoWrite
        /\ UNCHANGED <<objDirs, objFiles, written, cloneVars, workdir, lastTree>>

TreeInit == EmptyStore /\ CloneAt("tree") /\ EmptyWorkdir

TreeNext ==
    \/ \E path \in WorkPaths : \E item \in WorkItems(path) : AddItem(path, item)
    \/ WriteTree
    \/ \E w \in TreeProbes : StorePackObject(w[1], w[2])
    \/ \E hash \in StoredHashes \cup {AbsentHash} : LsTree(hash)
    \/ \E hash \in StoredHashes \cup {AbsentHash} : CheckoutTree(hash)

TreeSpec == TreeInit /\ [][TreeNext]_vars

(***************************************************************************)
(* Claims on the object store.                                             *)
(***************************************************************************)
ReadOk(obj) == [ok |-> TRUE, err |-> "", obj |-> obj]

\* C1: every object stored by Object::write is read back by Object::read
\* under its hex digest with the same kind, the same payload bytes, the same
\* declared length and the same digest; a read command that succeeds returns
\* exactly such an object.
C1_ReadAfterWrite ==
    /\ \A w \in written :
          ObjectRead(objFiles, ObjectNew(w[1], w[2]).hash) = ReadOk(ObjectNew(w[1], w[2]))
    /\ lastRead.ok => \E w \in written : lastRead = ReadOk(ObjectNew(w[1], w[2]))

\* A tree whose payload holds a NUL and a space was written and read back,
\* with another object in the store.
C1_Witness ==
    /\ lastRead = ReadOk(ObjectNew("Tree", <<0, 32>>))
    /\ Cardinality(written) >= 2

\* C2: writing a (kind, payload) that was written before, whatever was
\* written in between, is possible and leaves every object file and every
\* directory of the store as it was.
C2_WriteIdempotent ==
    [][\A w \in written :
          WriteObject(w[1], w[2]) => (objFiles' = objFiles /\ objDirs' = objDirs)]_vars

\* An object was written a second time while the store held another object.
C2_Witness ==
    /\ lastWrite.existed
    /\ Cardinality(DOMAIN objFiles) >= 2

(***************************************************************************)
(* Claims on the clone command.                                            *)
(***************************************************************************)
\* C3: in every run of clone, no pack entry is decoded before ref discovery
\* has completed; an entry's object is persisted before the next entry's
\* header is parsed; checkout starts only when every entry of the pack has
\* been persisted and no decode has failed.
C3_CloneOrder ==
    /\ headersParsed > 0 => discovered
    /\ pc = "entry" => persisted = headersParsed
    /\ pc = "body" => persisted + 1 = headersParsed
    /\ checkedOut # <<>> =>
         /\ persisted = headersParsed
         /\ packets_left = 0
         /\ outcome \in {"running", "ok"} \/ error = "checkout"

\* The part of C3 that does not involve ref discovery.
C3_PersistBeforeNext ==
    /\ pc = "entry" => persisted = headersParsed
    /\ pc = "body" => persisted + 1 = headersParsed
    /\ checkedOut # <<>> => (persisted = headersParsed /\ packets_left = 0)

\* C4: a clone that finishes successfully has invoked checkout on the digest
\* of its first advertised ref, which is named HEAD; when the first ref has
\* another name or there is no ref, a clone that got past fetch_refs ends
\* with the NoHead error.
C4_HeadOrNoHead ==
    /\ outcome = "ok" =>
         /\ refs # <<>>
         /\ refs[1].name = HeadName
         /\ checkedOut = refs[1].id
    /\ (pc = "done" /\ outcome = "ok" /\ (refs = <<>> \/ refs[1].name # HeadName)) =>
         error = "Missing HEAD reference"

\* The want lines of a request body, as the server reads them.
RECURSIVE WantsOf(_)
WantsOf(body) ==
    IF StartsWith(body, WantPrefix) /\ Len(body) >= 50 /\ body[50] = 10
    THEN <<SubSeq(body, 10, 49)>> \o WantsOf(DropFirst(body, 50))
    ELSE <<>>

RefIds(rs) == {rs[i].id : i \in 1..Len(rs)}

PeeledIds(rs) == {rs[i].peeled_ref : i \in {j \in 1..Len(rs) : rs[j].peeled_ref # <<>>}}

Range(f) == {f[i] : i \in DOMAIN f}

\* C5 as stated: the want lines are the ascending, duplicate-free list of
\* the ids and the peeled digests of the advertised refs.
C5_WantsIdsAndPeeled ==
    posted # <<>> =>
        /\ \A i, j \in 1..Len(WantsOf(posted)) :
              i < j => LexLess(WantsOf(posted)[i], WantsOf(posted)[j])
        /\ Range(WantsOf(posted)) = RefIds(refs) \cup PeeledIds(refs)

\* C5 amended: the want lines are the ascending, duplicate-free list of the
\* ids of the advertised refs, followed by a flush and the done line; peeled
\* digests are not requested.
C5_WantsAreRefIds ==
    posted # <<>> =>
        /\ \A i, j \in 1..Len(WantsOf(posted)) :
              i < j => LexLess(WantsOf(posted)[i], WantsOf(posted)[j])
        /\ Range(WantsOf(posted)) = RefIds(refs)
        /\ posted = Concat([i \in 1..Len(WantsOf(posted)) |->
                               WantPrefix \o WantsOf(posted)[i] \o <<10>>])
                    \o FlushPkt \o DonePkt

\* A tag with a peeled digest was advertised after HEAD, and the two ids
\* were requested in ascending order, the reverse of the advertised order.
C5_Witness ==
    /\ Len(refs) = 2
    /\ refs[2].peeled_ref # <<>>
    /\ refs[2].peeled_ref \notin RefIds(refs)
    /\ WantsOf(posted) = <<refs[2].id, refs[1].id>>

\* C6: fetch_refs returns Ok only for a response that is the NAK frame
\* followed directly by a PACK stream.
C6_NakThenPack ==
    pc = "head" =>
        /\ StartsWith(response, NakPkt)
        /\ StartsWith(DropFirst(response, Len(NakPkt)), PACK)

\* C7: type bits 0 and 5 end the decode with an error; bits 1-4 go the
\* plain-object way and bits 7 the ref-delta way; bits 6 end the decode with
\* an error that is returned to the caller.
C7_TypeDispatch ==
    /\ (headersParsed > 0 /\ entry.bits \in {0, 5}) => (pc = "done" /\ outcome = "err")
    /\ (pc = "body" /\ entry.bits \in 1..4) => entry.type \in PlainTypes
    /\ (pc = "body" /\ entry.bits = 7) => entry.type = "OBJ_REF_DELTA"
    /\ (pc # "body" /\ entry.type \in PlainTypes) =>
         (lastEntry.arm = "plain" /\ lastEntry.type = entry.type)
    /\ (pc # "body" /\ entry.type = "OBJ_REF_DELTA") => lastEntry.arm = "ref_delta"
    /\ (pc # "body" /\ entry.type = "OBJ_OFS_DELTA") => (pc = "done" /\ outcome = "err")

\* C8: a pack entry whose object was persisted, plain or ref-delta, declared
\* in its header the length of the bytes inflated from its zlib stream.
C8_DeclaredSize ==
    lastEntry.stored # <<>> => lastEntry.declared = lastEntry.inflated

\* C9: a ref-delta entry whose object was persisted produced an output of
\* the length target_size that its delta declares.
C9_TargetSize ==
    (lastEntry.arm = "ref_delta" /\ lastEntry.stored # <<>>) =>
        lastEntry.output_len = lastEntry.target_len

\* C10: every COPY instruction executed appended source[offset : offset+length],
\* where a length field of zero stands for 0x10000 bytes.
C10_CopyLength ==
    \A i \in 1..Len(deltaOps) :
        deltaOps[i].op = "COPY" =>
            LET length == IF deltaOps[i].field = 0 THEN 65536 ELSE deltaOps[i].field
                source == lastRead.obj.data
            IN  /\ Len(deltaOps[i].bytes) = length
                /\ deltaOps[i].offset + length <= Len(source)
                /\ deltaOps[i].bytes =
                       SubSeq(source, deltaOps[i].offset + 1, deltaOps[i].offset + length)

\* C11: a delta instruction whose leading byte is 0x00 is never executed as
\* an INSERT of length 0, and the ref-delta entry whose instructions hold
\* such a byte ends the decode with an error and persists no object.
C11_ZeroOpFails ==
    /\ \A i \in 1..Len(deltaOps) : deltaOps[i].byte = 0 => deltaOps[i].op # "INSERT"
    /\ (lastEntry.arm = "ref_delta" /\ \E i \in 1..Len(deltaOps) : deltaOps[i].byte = 0) =>
         /\ lastEntry.stored = <<>>
         /\ pc = "done"
         /\ outcome = "err"

\* C12: a ref-delta entry is resolved against the store as it is when the
\* entry is processed.  An entry that is persisted had its base in the store
\* and is stored with the kind of the base; an entry whose base is looked up
\* and is not in the store ends the decode with an error at that entry, and
\* the object files and directories of the earlier entries stay as they are.
C12_BaseAtThatMoment ==
    [][(ProcessRefDelta /\ Len(rest) >= DigestLen) =>
          LET base == HexEncode(TakeFirst(rest, DigestLen))
              present == ObjectPath(base).file \in DOMAIN objFiles
          IN  /\ persisted' = persisted + 1 =>
                    /\ present
                    /\ ObjectRead(objFiles', lastWrite'.hash).ok
                    /\ ObjectRead(objFiles', lastWrite'.hash).obj.header.kind
                           = ObjectRead(objFiles, base).obj.header.kind
              /\ (~present /\ lastRead' # NoRead) =>
                    /\ pc' = "done"
                    /\ outcome' = "err"
                    /\ persisted' = persisted
                    /\ objFiles' = objFiles
                    /\ objDirs' = objDirs]_vars

\* A ref-delta whose base is not in the store ended the decode with an error
\* after an earlier entry of the same pack had been persisted.
C12_Witness ==
    /\ pc = "done"
    /\ outcome = "err"
    /\ error = "Opening object file"
    /\ lastEntry.arm = "ref_delta"
    /\ persisted = 1
    /\ Cardinality(DOMAIN objFiles) = 1

\* A ref-delta on a commit was persisted as a commit.
C12_StoredAsBase ==
    /\ lastEntry.arm = "ref_delta"
    /\ lastEntry.stored # <<>>
    /\ ObjectRead(objFiles, lastEntry.stored).obj.header.kind = "Commit"

\* The length field of a frame: four lowercase hex digits, most significant
\* first; -1 when a byte is no such digit.
FrameLength(prefix) ==
    IF \A i \in 1..4 : \E v \in 0..15 : HexDigit(v) = prefix[i]
    THEN LET d(i) == CHOOSE v \in 0..15 : HexDigit(v) = prefix[i]
         IN  d(1) * 4096 + d(2) * 256 + d(3) * 16 + d(4)
    ELSE 0 - 1

DoneLine == <<100, 111, 110, 101, 10>>

\* C13: parse_pkt_lines appends one element per frame, in stream order: a
\* length field of 0000 appends Flush and consumes 4 bytes, a length L >= 4
\* appends Data of the next L-4 bytes and consumes L bytes, a length of 1..3
\* ends the parse with the protocol error; the steps inside a pack leave
\* the frames alone; `0009done\n0000` yields [Data("done\n"), Flush].
C13_FramesInOrder ==
    [][/\ (ParseFrame /\ Len(lines) >= 4) =>
             LET L == FrameLength(TakeFirst(lines, 4))
             IN  /\ L = 0 =>
                       /\ pkt_lines' = Append(pkt_lines, Flush)
                       /\ lines' = DropFirst(lines, 4)
                       /\ pc' = "parse"
                 /\ (L >= 4 /\ Len(lines) >= L) =>
                       /\ pkt_lines' = Append(pkt_lines, Data(SubSeq(lines, 5, L)))
                       /\ lines' = DropFirst(lines, L)
                       /\ pc' = "parse"
                 /\ L \in 1..3 =>
                       /\ pc' = "done"
                       /\ outcome' = "err"
                       /\ error' = "pkt-line length must be at least 4"
                 /\ (response = DonePkt \o FlushPkt /\ lines' = <<>> /\ pc' = "parse") =>
                       pkt_lines' = <<Data(DoneLine), Flush>>
       /\ pc \in {"entry", "body"} => pkt_lines' = pkt_lines
       /\ (pc = "parse" /\ pc' = caller) => pkt_lines' = pkt_lines]_vars

\* The stream `0009done\n0000` was parsed and its two frames were returned
\* to the caller.
C13_Witness ==
    /\ pc = "fetch_refs"
    /\ response = DonePkt \o FlushPkt
    /\ pkt_lines = <<Data(DoneLine), Flush>>

\* C18: whatever the input, truncated inputs included, every step of
\* parse_pkt_lines either goes on, returns the frames, or returns an error
\* value; it never aborts on a read outside the bounds of its input.
C18_NeverAborts ==
    [][(pc = "parse" \/ pc = "entry" \/ pc = "body")
          => (outcome' = "running" \/ outcome' = "err")]_vars

(***************************************************************************)
(* Claims on trees.                                                        *)
(***************************************************************************)
\* C14: the tree object that write-tree made from a working directory, with
\* directory, file, executable and symlink entries, is parsed back to the
\* same entries (mode, name, target) in the same order, ascending by name.
C14_TreeRoundTrip ==
    (parsed.status # "none" /\ lastTree.hash # <<>> /\ parsed.hash = lastTree.hash) =>
        /\ parsed.status = "ok"
        /\ parsed.entries = lastTree.entries
        /\ \A i, j \in 1..Len(parsed.entries) :
              i < j => StrLess(parsed.entries[i].name, parsed.entries[j].name)

\* What is left of a tree payload after its whole records: header, NUL and
\* 20 digest bytes each.
RECURSIVE TrailingRecord(_)
TrailingRecord(payload) ==
    LET nul == FirstIndexOf(payload, 0)
    IN  IF nul = 0 \/ Len(payload) < nul + DigestLen THEN payload
        ELSE TrailingRecord(DropFirst(payload, nul + DigestLen))

\* C15: parsing a tree payload that ends in a truncated record, bytes
\* without a NUL or a NUL with fewer than 20 bytes after it, returns an
\* error; the payload is never accepted with the trailing bytes dropped.
C15_TruncatedRecordFails ==
    (/\ parsed.status # "none"
     /\ lastRead.ok
     /\ lastRead.obj.header.kind = "Tree"
     /\ TrailingRecord(lastRead.obj.data) # <<>>) => parsed.status = "err"

\* C16: after a successful checkout every file made for a regular entry
\* holds the payload of the blob the entry references and is executable
\* exactly when the mode of the entry is 100755.
C16_FileContentAndExecBit ==
    lastCheckout.status = "ok" =>
        \A i \in 1..Len(lastCheckout.created) :
            LET made == lastCheckout.created[i]
            IN  (made.mode = ModeFile \/ made.mode = ModeExecutable) =>
                    /\ made.path \in DOMAIN outdir
                    /\ outdir[made.path].type = "file"
                    /\ outdir[made.path].bytes =
                           ObjectRead(objFiles, HexEncode(made.reference)).obj.data
                    /\ outdir[made.path].exec = (made.mode = ModeExecutable)

\* C17: the symlink that checkout makes for an entry of mode 120000 has the
\* raw bytes of the entry as its target, and checking out the tree that
\* write-tree made from a directory recreates each symlink of the directory
\* with its link target.
C17_SymlinkTarget ==
    lastCheckout.status = "ok" =>
        /\ \A i \in 1..Len(lastCheckout.created) :
              LET made == lastCheckout.created[i]
              IN  made.mode = ModeSymlink =>
                      /\ made.path \in DOMAIN outdir
                      /\ outdir[made.path] = LinkItem(made.reference)
        /\ lastCheckout.hash = lastTree.hash =>
              \A path \in DOMAIN lastTree.dir :
                  lastTree.dir[path].type = "symlink" =>
                      /\ path \in DOMAIN outdir
                      /\ outdir[path] = LinkItem(lastTree.dir[path].bytes)

====
